---- MODULE Spec2Model ----
(***************************************************************************)
(* Review submission, reward-coupon issuance and coupon redemption of the  *)
(* Hashview backend, as a state machine over the three MongoDB collections *)
(* the handlers share (reviews, businesses, coupons) and the in-memory     *)
(* suspicious-activity log.  Every handler is split at its awaited         *)
(* database calls: one action per database call, together with the         *)
(* synchronous code that follows it up to the next call.                   *)
(* Time is counted in hours.                                               *)
(***************************************************************************)
EXTENDS Integers, Sequences, FiniteSets, TLC

\* ---------------------------------------------------------------- bounds
\* Number of createReview requests of the specifications without a race
\* (requests are numbered in order of arrival).
NReviewReqs == 1
\* Number of redemption requests of the specifications without a race.
NRedeemReqs == 1
\* The clock stops at MaxTime (hours since midnight of day 0).
MaxTime == 24
\* ------------------------------------------------------ program constants
\* Review.countDocuments(...) >= 5 rejects the submission.
RateLimit == 5
\* couponExpiry.setHours(couponExpiry.getHours() + 2)
ValidityHours == 2
\* today.setHours(0, 0, 0, 0): a calendar day is 24 hours.
DayHours == 24
\* locationAccuracy > 50 rejects.
MaxAccuracy == 50
\* verificationTime !== 30 is logged.
ExpectedVerificationTime == 30
\* locationHistoryCount < 5 is logged.
MinLocationHistory == 5
\* suspiciousActivities.length >= 3 rejects.
MaxAnomalies == 3
\* sameDeviceReviews >= 3 is logged.
SameDeviceLimit == 3
\* The log keeps its last 1000 entries.
LogCapacity == 1000
\* business.radius, the schema default.
DefaultRadius == 50
\* The limits of business.radius (schema min and max).
MinRadius == 10
MaxRadius == 500
\* JavaScript null in a number or date field.
Null == -1
\* A field the document does not have (JavaScript undefined).
Undefined == -2

ReviewReqs == 1..NReviewReqs
RedeemReqs == 1..NRedeemReqs
\* The two concurrent requests of the specifications that study a race.
RacingReviews == {1, 2}
RacingRedeems == {1, 2}
AllReviewReqs == ReviewReqs \cup RacingReviews
AllRedeemReqs == RedeemReqs \cup RacingRedeems
\* Midnight between day 0 and day 1.
Midnight == DayHours
\* The hour at which the coupons of day 0 were issued: they are valid up to
\* and including the hour before midnight.
StartTime == Midnight - ValidityHours - 1

\* Actors that submit reviews.
Users == {"u1", "u2"}
\* Business ids a request may name: 1 and 2 are active businesses, 3 is a
\* business whose status is 'pending', 4 resolves to no business.
BusinessIds == 1..4
Businesses == {1, 2, 3}
BusinessStatus(b) == IF b = 3 THEN "pending" ELSE "active"
\* Ratings a submission may carry.
Ratings == {1, 5}
\* The codes generateCouponCode may return (a small range, so that two
\* draws can collide).
Codes == {"HASH-AAAAAA", "HASH-AAAAAB"}

VARIABLES
    now,       \* the wall clock, in hours
    reviews,   \* Review collection: review id -> document
    rating,    \* Business collection: business id -> rating aggregate
    coupons,   \* Coupon collection: coupon id -> document
    log,       \* suspiciousActivityLog
    rv,        \* createReview requests in flight: request -> locals
    rd,        \* redemption requests in flight: request -> locals
    sw,        \* the expireCoupons job: its position and its `now`
    mc,        \* the POST /api/coupons request: its locals
    fn,        \* the utility call under evaluation: arguments and result
    bizRadius  \* Business collection: business id -> radius

vars == <<now, reviews, rating, coupons, log, rv, rd, sw, mc, fn, bizRadius>>

\* ---------------------------------------------------------------- helpers
\* today.setHours(0,0,0,0)
DayStart(t) == (t \div DayHours) * DayHours

\* logSuspiciousBehavior with pop() for shift(): past the capacity it drops
\* the entry it has just pushed.
LogAppend_Pop(l, e) ==
    LET l2 == Append(l, e)
    IN  IF Len(l2) > LogCapacity THEN SubSeq(l2, 1, Len(l2) - 1) ELSE l2

\* logSuspiciousBehavior: push, then shift when longer than the capacity.
LogAppend(l, e) ==
    LET l2 == Append(l, e)
    IN  IF Len(l2) > LogCapacity THEN Tail(l2) ELSE l2

RECURSIVE LogAppendAll(_, _)
LogAppendAll(l, es) ==
    IF es = <<>> THEN l ELSE LogAppendAll(LogAppend(l, Head(es)), Tail(es))

\* logEntry: the actor, the event type and the time of the record.
Entry(u, type) == [userId |-> u, eventType |-> type, timestamp |-> now]

\* Review.countDocuments({user, createdAt: {$gte: today}})
TodayReviewCount(u, today) ==
    Cardinality({i \in DOMAIN reviews :
                    reviews[i].user = u /\ reviews[i].createdAt >= today})

\* Review.findOne({user, business, createdAt: {$gte: today}}) finds a document.
ExistingReview(u, b, today) ==
    \E i \in DOMAIN reviews :
        /\ reviews[i].user = u
        /\ reviews[i].business = b
        /\ reviews[i].createdAt >= today

\* Review.countDocuments({user, deviceId, createdAt: {$gte: today}})
SameDeviceReviews(u, dev, today) ==
    Cardinality({i \in DOMAIN reviews :
                    /\ reviews[i].user = u
                    /\ reviews[i].deviceId = dev
                    /\ reviews[i].createdAt >= today})

\* Review.find({business}) reduced to the sum and the number of its ratings.
RECURSIVE SumRatings(_)
SumRatings(ids) ==
    IF ids = {} THEN 0
    ELSE LET i == CHOOSE x \in ids : TRUE
         IN  reviews[i].rating + SumRatings(ids \ {i})

\* Review.find without its business filter.
BusinessReviews_OfAll(b) == DOMAIN reviews

BusinessReviews(b) == {i \in DOMAIN reviews : reviews[i].business = b}

\* The rate limit with its comparison off by one.
RateLimited_OffByOne(count) == count > RateLimit

\* todayReviewCount >= 5
RateLimited(count) == count >= RateLimit

\* The comparison without the boundary.
IsWithinGeofence_Strict(distance, radius) == distance < radius

\* isWithinGeofence: distance <= radius.
IsWithinGeofence(distance, radius) == distance <= radius

\* Coupon.findOne({business, type: 'business', isActive: true})
TemplateIds(b) ==
    {c \in DOMAIN coupons :
        /\ coupons[c].business = b
        /\ coupons[c].type = "business"
        /\ coupons[c].isActive}

\* Coupon.countDocuments({business, type: 'review_reward', status: 'redeemed'})
RedeemedCount(b) ==
    Cardinality({c \in DOMAIN coupons :
                    /\ coupons[c].business = b
                    /\ coupons[c].type = "review_reward"
                    /\ coupons[c].status = "redeemed"})

\* redeemedCount >= couponTemplate.redemptionLimit
LimitReached(count, limit) == count >= limit

CodesInUse == {coupons[c].code : c \in DOMAIN coupons}

\* utils/coupon.js isCouponValid, on a document read earlier.  new Date(null)
\* is the epoch, which every `now` is after; new Date(undefined) is an
\* invalid date, and no date compares greater than it.
IsCouponValid(status, validUntil, t) ==
    IF status # "active" THEN FALSE
    ELSE IF validUntil = Undefined THEN TRUE
    ELSE IF validUntil = Null \/ t > validUntil THEN FALSE
    ELSE TRUE

\* A date field that is set (neither null nor undefined).
IsDate(d) == d # Null /\ d # Undefined

\* couponSchema.methods.isValid
IsValid(c, t) ==
    IF ~c.isActive \/ c.status = "inactive" THEN FALSE
    ELSE IF IsDate(c.validFrom) /\ t < c.validFrom THEN FALSE
    ELSE IF IsDate(c.validUntil) /\ t > c.validUntil THEN FALSE
    ELSE IF c.type = "business" /\ c.usageLimit # Null /\ c.usageLimit # 0
            /\ c.usageCount >= c.usageLimit THEN FALSE
    ELSE IF c.type = "review_reward" /\ c.status = "redeemed" THEN FALSE
    ELSE TRUE

\* A Coupon document with the schema defaults.
CouponDoc(type, b, u, r, code, from, until, limit) ==
    [type |-> type, business |-> b, user |-> u, review |-> r, code |-> code,
     validFrom |-> from, validUntil |-> until, status |-> "active",
     isActive |-> TRUE, usageLimit |-> Null, usageCount |-> 0,
     redemptionLimit |-> limit, redemptionCount |-> 0,
     redeemedAt |-> Null, redeemedBy |-> "none"]

\* The template an owner created with POST /api/business-coupons.
TemplateDoc(b, limit) ==
    CouponDoc("business", b, "none", 0, "TEMPLATE", StartTime, Null, limit)

\* ------------------------------------------------------- request inputs
NoCoupon == <<"none", 0>>
\* A review id that resolves to no document.
MissingReview == 99
RewardId(r) == <<"reward", r>>
TemplateId(b) == <<"template", b>>
ManualId == <<"manual", 1>>

\* A submission that trips no check: inside the radius, accurate GPS, the
\* expected verification time, no mock location, enough location history,
\* no client-reported anomaly, no device fingerprint.
CleanInput ==
    [distance |-> 0, locationAccuracy |-> 10,
     verificationTime |-> ExpectedVerificationTime, isMockLocation |-> FALSE,
     locationHistoryCount |-> 10, anomalies |-> 0, deviceId |-> Null]

\* The request bodies the createReview requests draw from: the clean one, one
\* that trips each rejecting check, and one with a device fingerprint.  (The
\* combinations of the metadata, thresholds included, are AllBodies.)
ReviewInputs ==
    { CleanInput,
      [CleanInput EXCEPT !.distance = DefaultRadius + 1],
      [CleanInput EXCEPT !.locationAccuracy = MaxAccuracy + 1],
      [CleanInput EXCEPT !.isMockLocation = TRUE],
      [CleanInput EXCEPT !.anomalies = MaxAnomalies],
      [CleanInput EXCEPT !.deviceId = 1] }

RECURSIVE Repeat(_, _)
Repeat(x, n) == IF n = 0 THEN <<>> ELSE <<x>> \o Repeat(x, n - 1)

\* The checks with the anomaly rules in front of the location-history rule:
\* a body with 3 or more anomalies is rejected before its location history
\* is looked at.
SecurityChecks_AnomaliesFirst(inp, radius) ==
    IF ~IsWithinGeofence(inp.distance, radius)
    THEN [verdict |-> "geofence", events |-> <<"GEOFENCE_VIOLATION">>]
    ELSE IF inp.locationAccuracy # Null /\ inp.locationAccuracy # 0
            /\ inp.locationAccuracy > MaxAccuracy
    THEN [verdict |-> "gps", events |-> <<"POOR_GPS_ACCURACY">>]
    ELSE
      LET e1 == IF inp.verificationTime # Null
                   /\ inp.verificationTime # ExpectedVerificationTime
                THEN <<"VERIFICATION_TIME_MISMATCH">> ELSE <<>>
      IN  IF inp.isMockLocation
          THEN [verdict |-> "mock",
                events |-> e1 \o <<"MOCK_LOCATION_DETECTED">>]
          ELSE
            LET e2 == e1 \o Repeat("FRONTEND_ANOMALY", inp.anomalies)
                e3 == IF inp.locationHistoryCount # Null
                         /\ inp.locationHistoryCount < MinLocationHistory
                      THEN e2 \o <<"INSUFFICIENT_LOCATION_HISTORY">> ELSE e2
            IN  IF inp.anomalies >= MaxAnomalies
                THEN [verdict |-> "anomalies", events |-> e2]
                ELSE [verdict |-> "ok", events |-> e3]

\* The checks with the mock-location rule logging its event without
\* returning.
SecurityChecks_MockLogged(inp, radius) ==
    IF ~IsWithinGeofence(inp.distance, radius)
    THEN [verdict |-> "geofence", events |-> <<"GEOFENCE_VIOLATION">>]
    ELSE IF inp.locationAccuracy # Null /\ inp.locationAccuracy # 0
            /\ inp.locationAccuracy > MaxAccuracy
    THEN [verdict |-> "gps", events |-> <<"POOR_GPS_ACCURACY">>]
    ELSE
      LET e0 == IF inp.verificationTime # Null
                   /\ inp.verificationTime # ExpectedVerificationTime
                THEN <<"VERIFICATION_TIME_MISMATCH">> ELSE <<>>
          e1 == IF inp.isMockLocation
                THEN e0 \o <<"MOCK_LOCATION_DETECTED">> ELSE e0
          e2 == IF inp.locationHistoryCount # Null
                   /\ inp.locationHistoryCount < MinLocationHistory
                THEN e1 \o <<"INSUFFICIENT_LOCATION_HISTORY">> ELSE e1
          e3 == e2 \o Repeat("FRONTEND_ANOMALY", inp.anomalies)
      IN  IF inp.anomalies >= MaxAnomalies
          THEN [verdict |-> "anomalies", events |-> e3]
          ELSE [verdict |-> "ok", events |-> e3]

\* The checks with the verification-time rule rejecting where it only logs.
SecurityChecks_TimeRejects(inp, radius) ==
    IF ~IsWithinGeofence(inp.distance, radius)
    THEN [verdict |-> "geofence", events |-> <<"GEOFENCE_VIOLATION">>]
    ELSE IF inp.locationAccuracy # Null /\ inp.locationAccuracy # 0
            /\ inp.locationAccuracy > MaxAccuracy
    THEN [verdict |-> "gps", events |-> <<"POOR_GPS_ACCURACY">>]
    ELSE IF inp.verificationTime # Null
            /\ inp.verificationTime # ExpectedVerificationTime
    THEN [verdict |-> "anomalies",
          events |-> <<"VERIFICATION_TIME_MISMATCH">>]
    ELSE IF inp.isMockLocation
    THEN [verdict |-> "mock", events |-> <<"MOCK_LOCATION_DETECTED">>]
    ELSE
      LET e2 == IF inp.locationHistoryCount # Null
                   /\ inp.locationHistoryCount < MinLocationHistory
                THEN <<"INSUFFICIENT_LOCATION_HISTORY">> ELSE <<>>
          e3 == e2 \o Repeat("FRONTEND_ANOMALY", inp.anomalies)
      IN  IF inp.anomalies >= MaxAnomalies
          THEN [verdict |-> "anomalies", events |-> e3]
          ELSE [verdict |-> "ok", events |-> e3]

\* The synchronous checks of createReview between the duplicate lookup and
\* the device-fingerprint lookup: the verdict and the event types logged,
\* in the order the code logs them.
SecurityChecks(inp, radius) ==
    IF ~IsWithinGeofence(inp.distance, radius)
    THEN [verdict |-> "geofence", events |-> <<"GEOFENCE_VIOLATION">>]
    ELSE IF inp.locationAccuracy # Null /\ inp.locationAccuracy # 0
            /\ inp.locationAccuracy > MaxAccuracy
    THEN [verdict |-> "gps", events |-> <<"POOR_GPS_ACCURACY">>]
    ELSE
      LET e1 == IF inp.verificationTime # Null
                   /\ inp.verificationTime # ExpectedVerificationTime
                THEN <<"VERIFICATION_TIME_MISMATCH">> ELSE <<>>
      IN  IF inp.isMockLocation
          THEN [verdict |-> "mock",
                events |-> e1 \o <<"MOCK_LOCATION_DETECTED">>]
          ELSE
            LET e2 == IF inp.locationHistoryCount # Null
                         /\ inp.locationHistoryCount < MinLocationHistory
                      THEN e1 \o <<"INSUFFICIENT_LOCATION_HISTORY">> ELSE e1
                e3 == e2 \o Repeat("FRONTEND_ANOMALY", inp.anomalies)
            IN  IF inp.anomalies >= MaxAnomalies
                THEN [verdict |-> "anomalies", events |-> e3]
                ELSE [verdict |-> "ok", events |-> e3]

Entries(u, types) == [k \in 1..Len(types) |-> Entry(u, types[k])]

\* The request body of a request that has not arrived, or whose security
\* metadata is of no further use to it.
NoBody ==
    [distance |-> 0, locationAccuracy |-> Null, verificationTime |-> Null,
     isMockLocation |-> FALSE, locationHistoryCount |-> Null, anomalies |-> 0,
     deviceId |-> Null]

\* ------------------------------------------------- createReview requests
IdleReview ==
    [pc |-> "idle", user |-> "none", business |-> 0, body |-> NoBody,
     radius |-> 0, today |-> 0, deviceId |-> Null, sum |-> 0, count |-> 0,
     template |-> NoCoupon, limit |-> Null, result |-> "none"]

\* securityMetadata of Review.create (lines 313-326): the metadata of the body
\* as sent, the distance computed for the geofence check and the radius of
\* the business document that Business.findById returned.
Snapshot(inp, radius) ==
    [locationAccuracy |-> inp.locationAccuracy,
     verificationTime |-> inp.verificationTime,
     isMockLocation |-> inp.isMockLocation,
     locationHistoryCount |-> inp.locationHistoryCount,
     suspiciousActivitiesCount |-> inp.anomalies,
     actualDistance |-> inp.distance,
     businessRadius |-> radius]

\* The request ends with `res`; its locals are dropped.
EndReview(r, res) == [IdleReview EXCEPT !.pc = "done", !.result = res]

\* The results that are rejections of the submission.
Rejections ==
    {"not_found", "not_active", "rate_limit", "duplicate", "geofence",
     "gps", "mock", "anomalies"}

\* Lines 112-152: the request arrives with its user and its body (one of
\* `bodies`); Business.findById, the 404 and the status check.
FindBusinessFrom(r, bodies) ==
    /\ rv[r].pc = "idle"
    /\ IF r = 1 THEN TRUE ELSE rv[r - 1].pc # "idle"
    /\ \E u \in Users, b \in BusinessIds, inp \in bodies :
         rv' = [rv EXCEPT ![r] =
                IF b \notin Businesses
                THEN EndReview(r, "not_found")
                ELSE IF BusinessStatus(b) # "active"
                THEN EndReview(r, "not_active")
                ELSE [rv[r] EXCEPT !.pc = "rate", !.user = u, !.business = b,
                                   !.body = inp, !.radius = bizRadius[b]]]
    /\ UNCHANGED <<now, reviews, rating, coupons, log, rd, sw, mc, fn, bizRadius>>

FindBusiness(r) == FindBusinessFrom(r, ReviewInputs)

\* The rate check with the duplicate lookup in front of it.
RateCheck_AfterDuplicate(r) ==
    /\ rv[r].pc = "rate"
    /\ LET today == DayStart(now)
           count == TodayReviewCount(rv[r].user, today)
       IN  IF ExistingReview(rv[r].user, rv[r].business, today)
           THEN /\ log' = log
                /\ rv' = [rv EXCEPT ![r] = EndReview(r, "duplicate")]
           ELSE IF RateLimited(count)
           THEN /\ log' = LogAppend(log, Entry(rv[r].user, "RATE_LIMIT_EXCEEDED"))
                /\ rv' = [rv EXCEPT ![r] = EndReview(r, "rate_limit")]
           ELSE /\ log' = log
                /\ rv' = [rv EXCEPT ![r].pc = "dup", ![r].today = today]
    /\ UNCHANGED <<now, reviews, rating, coupons, rd, sw, mc, fn, bizRadius>>

\* Lines 154-173: today, Review.countDocuments and the rate limit.
RateCheck(r) ==
    /\ rv[r].pc = "rate"
    /\ LET today == DayStart(now)
           count == TodayReviewCount(rv[r].user, today)
       IN  IF RateLimited(count)
           THEN /\ log' = LogAppend(log, Entry(rv[r].user, "RATE_LIMIT_EXCEEDED"))
                /\ rv' = [rv EXCEPT ![r] = EndReview(r, "rate_limit")]
           ELSE /\ log' = log
                /\ rv' = [rv EXCEPT ![r].pc = "dup", ![r].today = today]
    /\ UNCHANGED <<now, reviews, rating, coupons, rd, sw, mc, fn, bizRadius>>

\* Lines 175-280: Review.findOne for a same-day review of the business, then
\* the geofence and the security checks on the request body.
DuplicateAndSecurityChecks(r) ==
    /\ rv[r].pc = "dup"
    /\ IF ExistingReview(rv[r].user, rv[r].business, rv[r].today)
       THEN /\ rv' = [rv EXCEPT ![r] = EndReview(r, "duplicate")]
            /\ log' = log
       ELSE LET inp == rv[r].body
                chk == SecurityChecks(inp, rv[r].radius)
            IN  /\ log' = LogAppendAll(log, Entries(rv[r].user, chk.events))
                /\ rv' = [rv EXCEPT ![r] =
                      IF chk.verdict # "ok" THEN EndReview(r, chk.verdict)
                      ELSE IF inp.deviceId # Null
                      THEN [rv[r] EXCEPT !.pc = "device",
                                         !.deviceId = inp.deviceId]
                      ELSE [rv[r] EXCEPT !.pc = "create"]]
    /\ UNCHANGED <<now, reviews, rating, coupons, rd, sw, mc, fn, bizRadius>>

\* The device-fingerprint rule returning a rejection where it only logs.
DeviceCheck_Rejects(r) ==
    /\ rv[r].pc = "device"
    /\ IF SameDeviceReviews(rv[r].user, rv[r].deviceId, rv[r].today)
            >= SameDeviceLimit
       THEN /\ log' = LogAppend(log, Entry(rv[r].user, "MULTIPLE_DEVICE_REVIEWS"))
            /\ rv' = [rv EXCEPT ![r] = EndReview(r, "anomalies")]
       ELSE /\ log' = log
            /\ rv' = [rv EXCEPT ![r].pc = "create"]
    /\ UNCHANGED <<now, reviews, rating, coupons, rd, sw, mc, fn, bizRadius>>

\* Lines 282-297: Review.countDocuments for the device fingerprint.
DeviceCheck(r) ==
    /\ rv[r].pc = "device"
    /\ log' = IF SameDeviceReviews(rv[r].user, rv[r].deviceId, rv[r].today)
                    >= SameDeviceLimit
              THEN LogAppend(log, Entry(rv[r].user, "MULTIPLE_DEVICE_REVIEWS"))
              ELSE log
    /\ rv' = [rv EXCEPT ![r].pc = "create"]
    /\ UNCHANGED <<now, reviews, rating, coupons, rd, sw, mc, fn, bizRadius>>

\* Review.create moved in front of the duplicate lookup and the security
\* checks: it also runs when the request has only passed the rate limit.
PersistReview_BeforeChecks(r) ==
    /\ rv[r].pc \in {"dup", "create"}
    /\ \E stars \in Ratings :
         reviews' = (r :> [user |-> rv[r].user, business |-> rv[r].business,
                           rating |-> stars, createdAt |-> now,
                           deviceId |-> rv[r].body.deviceId,
                           verified |-> TRUE,
                           security |-> Snapshot(rv[r].body, rv[r].radius),
                           couponAwarded |-> FALSE, coupon |-> NoCoupon])
                    @@ reviews
    /\ rv' = [rv EXCEPT ![r].pc = IF rv[r].pc = "dup" THEN "dup" ELSE "find"]
    /\ r \notin DOMAIN reviews
    /\ UNCHANGED <<now, rating, coupons, log, rd, sw, mc, fn, bizRadius>>

\* Review.create with the radius of the business re-read at this point
\* instead of the one the checks used.
PersistReview_RereadsRadius(r) ==
    /\ rv[r].pc = "create"
    /\ \E stars \in Ratings :
         reviews' = (r :> [user |-> rv[r].user, business |-> rv[r].business,
                           rating |-> stars, createdAt |-> now,
                           deviceId |-> rv[r].body.deviceId,
                           verified |-> TRUE,
                           security |-> Snapshot(rv[r].body,
                                                 bizRadius[rv[r].business]),
                           couponAwarded |-> FALSE, coupon |-> NoCoupon])
                    @@ reviews
    /\ rv' = [rv EXCEPT ![r].pc = "find", ![r].body = NoBody,
                         ![r].radius = 0]
    /\ UNCHANGED <<now, rating, coupons, log, rd, sw, mc, fn, bizRadius>>

\* Lines 299-327: Review.create.
PersistReview(r) ==
    /\ rv[r].pc = "create"
    /\ \E stars \in Ratings :
         reviews' = (r :> [user |-> rv[r].user, business |-> rv[r].business,
                           rating |-> stars, createdAt |-> now,
                           deviceId |-> rv[r].body.deviceId,
                           verified |-> TRUE,
                           security |-> Snapshot(rv[r].body, rv[r].radius),
                           couponAwarded |-> FALSE, coupon |-> NoCoupon])
                    @@ reviews
    /\ rv' = [rv EXCEPT ![r].pc = "find", ![r].body = NoBody,
                         ![r].radius = 0]
    /\ UNCHANGED <<now, rating, coupons, log, rd, sw, mc, fn, bizRadius>>

\* Lines 338-340: Review.find({business}) and the mean of what it returned.
ReadBusinessReviews(r) ==
    /\ rv[r].pc = "find"
    /\ LET ids == BusinessReviews(rv[r].business)
       IN  rv' = [rv EXCEPT ![r].pc = "save",
                            ![r].sum = SumRatings(ids),
                            ![r].count = Cardinality(ids)]
    /\ UNCHANGED <<now, reviews, rating, coupons, log, rd, sw, mc, fn, bizRadius>>

\* Lines 342-345: business.save() with the aggregate computed from the read.
\* The average is kept as the pair sum / count.
SaveBusinessRating(r) ==
    /\ rv[r].pc = "save"
    /\ rating' = [rating EXCEPT ![rv[r].business] =
                     [sum |-> rv[r].sum, count |-> rv[r].count]]
    /\ rv' = [rv EXCEPT ![r].pc = "template", ![r].sum = 0, ![r].count = 0]
    /\ UNCHANGED <<now, reviews, coupons, log, rd, sw, mc, fn, bizRadius>>

\* Lines 347-352: Coupon.findOne for the business's active template.
FindTemplate(r) ==
    /\ rv[r].pc = "template"
    /\ LET ids == TemplateIds(rv[r].business)
       IN  IF ids = {}
           THEN rv' = [rv EXCEPT ![r].pc = "mint"]
           ELSE \E t \in ids :
                  rv' = [rv EXCEPT
                           ![r].template = t,
                           ![r].limit = coupons[t].redemptionLimit,
                           ![r].pc = IF coupons[t].redemptionLimit # Null
                                     THEN "count" ELSE "mint"]
    /\ UNCHANGED <<now, reviews, rating, coupons, log, rd, sw, mc, fn, bizRadius>>

\* Lines 354-374: Coupon.countDocuments of the redeemed reward coupons of the
\* business; at the limit the review is returned without a coupon.
CheckRedemptionLimit(r) ==
    /\ rv[r].pc = "count"
    /\ rv' = [rv EXCEPT ![r] =
                IF LimitReached(RedeemedCount(rv[r].business), rv[r].limit)
                THEN EndReview(r, "created_no_coupon")
                ELSE [rv[r] EXCEPT !.pc = "mint"]]
    /\ UNCHANGED <<now, reviews, rating, coupons, log, rd, sw, mc, fn, bizRadius>>

\* validUntil of a reward coupon issued at time t.
CouponExpiry(t) == t + ValidityHours

\* Lines 376-419: generateCouponCode and Coupon.create; the unique index on
\* `code` makes the create throw when the code is taken, and the handler's
\* catch passes the error on.
MintCoupon(r) ==
    /\ rv[r].pc = "mint"
    /\ \E code \in Codes :
         IF code \in CodesInUse
         THEN /\ rv' = [rv EXCEPT ![r] = EndReview(r, "error")]
              /\ coupons' = coupons
         ELSE /\ coupons' =
                   (RewardId(r) :>
                      CouponDoc("review_reward", rv[r].business, rv[r].user, r,
                                code, now, CouponExpiry(now), Null))
                   @@ coupons
              /\ rv' = [rv EXCEPT ![r].pc = IF rv[r].template # NoCoupon
                                            THEN "usage" ELSE "link"]
    /\ UNCHANGED <<now, reviews, rating, log, rd, sw, mc, fn, bizRadius>>

\* Lines 421-426: Coupon.findByIdAndUpdate($inc usageCount) on the template.
IncrementUsage(r) ==
    /\ rv[r].pc = "usage"
    /\ coupons' = IF rv[r].template \in DOMAIN coupons
                  THEN [coupons EXCEPT ![rv[r].template].usageCount = @ + 1]
                  ELSE coupons
    /\ rv' = [rv EXCEPT ![r].pc = "link"]
    /\ UNCHANGED <<now, reviews, rating, log, rd, sw, mc, fn, bizRadius>>

\* Lines 428-430: review.save() with the coupon link.
LinkReview(r) ==
    /\ rv[r].pc = "link"
    /\ IF r \in DOMAIN reviews
       THEN /\ reviews' = [reviews EXCEPT ![r].couponAwarded = TRUE,
                                          ![r].coupon = RewardId(r)]
            /\ rv' = [rv EXCEPT ![r].pc = "notify_user"]
       ELSE \* the review was deleted meanwhile: review.save() writes
            \* nothing, and either throws (the request ends in the error
            \* handler) or returns, as the Mongoose version has it
            /\ reviews' = reviews
            /\ \/ rv' = [rv EXCEPT ![r] = EndReview(r, "error")]
               \/ rv' = [rv EXCEPT ![r].pc = "notify_user"]
    /\ UNCHANGED <<now, rating, coupons, log, rd, sw, mc, fn, bizRadius>>

\* What a call of sendPushNotification returns once it returns: it catches
\* every error, so a failed delivery is a return value, which createReview
\* ignores.
NotifyOutcomes == {"sent", "failed"}

\* Lines 432-445: await sendPushNotification for the reviewer; the request
\* goes on when the call has returned.
NotifyUser(r) ==
    /\ rv[r].pc = "notify_user"
    /\ \E outcome \in NotifyOutcomes :
         rv' = [rv EXCEPT ![r].pc = "notify_owner"]
    /\ UNCHANGED <<now, reviews, rating, coupons, log, rd, sw, mc, fn, bizRadius>>

\* Lines 447-453: await sendPushNotification for the business owner.
NotifyOwner(r) ==
    /\ rv[r].pc = "notify_owner"
    /\ \E outcome \in NotifyOutcomes :
         rv' = [rv EXCEPT ![r].pc = "respond"]
    /\ UNCHANGED <<now, reviews, rating, coupons, log, rd, sw, mc, fn, bizRadius>>

\* Lines 455-460: the 201 response with the review and the coupon.
Respond(r) ==
    /\ rv[r].pc = "respond"
    /\ rv' = [rv EXCEPT ![r] = EndReview(r, "created")]
    /\ UNCHANGED <<now, reviews, rating, coupons, log, rd, sw, mc, fn, bizRadius>>

\* --------------------------------------------------- redemption requests
IdleRedeem ==
    [pc |-> "idle", op |-> "none", coupon |-> NoCoupon, status |-> "none",
     at |-> 0, template |-> NoCoupon, result |-> "none"]

EndRedeem(d, op, c, res) ==
    [IdleRedeem EXCEPT !.pc = "done", !.coupon = c, !.result = res]

\* The ids a redemption request may name: every stored coupon and one id
\* that resolves to nothing.
RedeemTargets == DOMAIN coupons \cup {<<"missing", 0>>}

\* The results that are a conflict error of a redemption.
Conflicts == {"conflict", "already_redeemed", "expired", "not_valid"}

\* POST /api/coupons/:id/redeem, lines 224-232: Coupon.findById.
RedeemFind(d) ==
    /\ rd[d].pc = "idle"
    /\ IF d = 1 THEN TRUE ELSE rd[d - 1].pc # "idle"
    /\ \E c \in RedeemTargets :
         rd' = [rd EXCEPT ![d] =
                  IF c \notin DOMAIN coupons
                  THEN EndRedeem(d, "redeem", c, "not_found")
                  ELSE [IdleRedeem EXCEPT !.pc = "check", !.op = "redeem",
                                          !.coupon = c,
                                          !.status = coupons[c].status]]
    /\ UNCHANGED <<now, reviews, rating, coupons, log, rv, sw, mc, fn, bizRadius>>

\* Lines 234-255: Business.findById, the ownership check, isCouponValid on
\* the document read before, and the assignments to it.
RedeemCheck(d) ==
    /\ rd[d].pc = "check"
    /\ \E authorized \in BOOLEAN :
         LET c == rd[d].coupon
         IN  rd' = [rd EXCEPT ![d] =
                IF ~authorized THEN EndRedeem(d, "redeem", c, "forbidden")
                ELSE IF ~IsCouponValid(rd[d].status, coupons[c].validUntil, now)
                THEN EndRedeem(d, "redeem", c, "conflict")
                ELSE [rd[d] EXCEPT !.pc = "save", !.at = now]]
    /\ UNCHANGED <<now, reviews, rating, coupons, log, rv, sw, mc, fn, bizRadius>>

\* coupon.save() of a redemption: the modified paths are written.
Redeemed(c, at) ==
    [c EXCEPT !.status = "redeemed", !.redeemedAt = at, !.redeemedBy = "owner"]

\* Lines 256-262: coupon.save() and the success response.
RedeemSave(d) ==
    /\ rd[d].pc = "save"
    /\ coupons' = [coupons EXCEPT ![rd[d].coupon] = Redeemed(@, rd[d].at)]
    /\ rd' = [rd EXCEPT ![d] = EndRedeem(d, "redeem", rd[d].coupon, "redeemed")]
    /\ UNCHANGED <<now, reviews, rating, log, rv, sw, mc, fn, bizRadius>>

\* POST /api/business-coupons/scan-redeem, lines 345-415: Coupon.findById and
\* the checks on the document, up to the save that follows them.
ScanFind(d) ==
    /\ rd[d].pc = "idle"
    /\ IF d = 1 THEN TRUE ELSE rd[d - 1].pc # "idle"
    /\ \E c \in RedeemTargets, authorized \in BOOLEAN :
         rd' = [rd EXCEPT ![d] =
                  IF c \notin DOMAIN coupons
                  THEN EndRedeem(d, "scan", c, "not_found")
                  ELSE IF ~authorized
                  THEN EndRedeem(d, "scan", c, "forbidden")
                  ELSE IF coupons[c].status = "redeemed"
                  THEN EndRedeem(d, "scan", c, "already_redeemed")
                  ELSE IF coupons[c].status = "expired"
                          \/ (IsDate(coupons[c].validUntil)
                              /\ now > coupons[c].validUntil)
                  THEN IF coupons[c].status # "expired"
                       THEN [IdleRedeem EXCEPT !.pc = "expire", !.op = "scan",
                                               !.coupon = c]
                       ELSE EndRedeem(d, "scan", c, "expired")
                  ELSE IF ~IsValid(coupons[c], now)
                  THEN EndRedeem(d, "scan", c, "not_valid")
                  ELSE [IdleRedeem EXCEPT !.pc = "write", !.op = "scan",
                                          !.coupon = c, !.at = now]]
    /\ UNCHANGED <<now, reviews, rating, coupons, log, rv, sw, mc, fn, bizRadius>>

\* Lines 383-397: coupon.save() of the auto-expiry and the 400 response.
ScanSaveExpired(d) ==
    /\ rd[d].pc = "expire"
    /\ coupons' = [coupons EXCEPT ![rd[d].coupon].status = "expired"]
    /\ rd' = [rd EXCEPT ![d] = EndRedeem(d, "scan", rd[d].coupon, "expired")]
    /\ UNCHANGED <<now, reviews, rating, log, rv, sw, mc, fn, bizRadius>>

\* Lines 412-419: coupon.save() of the redemption; a coupon that is no
\* review_reward goes on to the notification and the response.
ScanSaveRedeemed(d) ==
    /\ rd[d].pc = "write"
    /\ coupons' = [coupons EXCEPT ![rd[d].coupon] = Redeemed(@, rd[d].at)]
    /\ rd' = [rd EXCEPT ![d] =
                IF coupons[rd[d].coupon].type = "review_reward"
                THEN [rd[d] EXCEPT !.pc = "template", !.at = 0]
                ELSE EndRedeem(d, "scan", rd[d].coupon, "redeemed")]
    /\ UNCHANGED <<now, reviews, rating, log, rv, sw, mc, fn, bizRadius>>

\* Lines 420-426: Coupon.findOne for the business's active template.
ScanFindTemplate(d) ==
    /\ rd[d].pc = "template"
    /\ LET ids == TemplateIds(coupons[rd[d].coupon].business)
       IN  IF ids = {}
           THEN rd' = [rd EXCEPT ![d] =
                         EndRedeem(d, "scan", rd[d].coupon, "redeemed")]
           ELSE \E t \in ids :
                  rd' = [rd EXCEPT ![d].pc = "inc", ![d].template = t]
    /\ UNCHANGED <<now, reviews, rating, coupons, log, rv, sw, mc, fn, bizRadius>>

\* Lines 427-455: Coupon.findByIdAndUpdate($inc redemptionCount), the
\* notification and the success response.
ScanIncrement(d) ==
    /\ rd[d].pc = "inc"
    /\ coupons' = [coupons EXCEPT ![rd[d].template].redemptionCount = @ + 1]
    /\ rd' = [rd EXCEPT ![d] = EndRedeem(d, "scan", rd[d].coupon, "redeemed")]
    /\ UNCHANGED <<now, reviews, rating, log, rv, sw, mc, fn, bizRadius>>

\* ------------------------------------------------------ expireCoupons job
\* The filter without its status condition.
SweepMatches_AnyStatus(c, t) ==
    /\ c.type = "review_reward"
    /\ IsDate(c.validUntil)
    /\ c.validUntil < t

\* The filter of both queries of the job.
SweepMatches(c, t) ==
    /\ c.type = "review_reward"
    /\ c.status = "active"
    /\ IsDate(c.validUntil)
    /\ c.validUntil < t

\* Lines 69-80: now = new Date(), Coupon.find; nothing found ends the run.
SweepFind ==
    /\ sw.pc = "idle"
    /\ \E c \in DOMAIN coupons : SweepMatches(coupons[c], now)
    /\ sw' = [pc |-> "update", now |-> now]
    /\ UNCHANGED <<now, reviews, rating, coupons, log, rv, rd, mc, fn, bizRadius>>

\* Lines 85-96: Coupon.updateMany with the same filter.
SweepUpdate ==
    /\ sw.pc = "update"
    /\ coupons' = [c \in DOMAIN coupons |->
                     IF SweepMatches(coupons[c], sw.now)
                     THEN [coupons[c] EXCEPT !.status = "expired"]
                     ELSE coupons[c]]
    /\ sw' = [pc |-> "idle", now |-> 0]
    /\ UNCHANGED <<now, reviews, rating, log, rv, rd, mc, fn, bizRadius>>

\* --------------------------------------------- POST /api/coupons request
IdleManual ==
    [pc |-> "idle", business |-> 0, validUntil |-> Undefined,
     code |-> "none", result |-> "none"]

\* The validUntil values the request body may carry.
ManualValidUntil == {Undefined, StartTime + 1, StartTime + ValidityHours}

\* coupon.controller createCoupon, lines 69-99: Business.findById and the
\* ownership check.
ManualFindBusiness ==
    /\ mc.pc = "idle"
    /\ \E b \in BusinessIds, authorized \in BOOLEAN, until \in ManualValidUntil :
         mc' = IF b \notin Businesses
               THEN [IdleManual EXCEPT !.pc = "done", !.result = "not_found"]
               ELSE IF ~authorized
               THEN [IdleManual EXCEPT !.pc = "done", !.result = "forbidden"]
               ELSE [IdleManual EXCEPT !.pc = "code", !.business = b,
                                       !.validUntil = until]
    /\ UNCHANGED <<now, reviews, rating, coupons, log, rv, rd, sw, fn, bizRadius>>

\* Lines 101-108: draw codes until Coupon.findOne({code}) finds none.
ManualGenerateCode ==
    /\ mc.pc = "code"
    /\ \E code \in Codes \ CodesInUse :
         mc' = [mc EXCEPT !.pc = "create", !.code = code]
    /\ UNCHANGED <<now, reviews, rating, coupons, log, rv, rd, sw, fn, bizRadius>>

\* Lines 110-133: Coupon.create without a type, which the schema defaults to
\* 'review_reward', with validFrom defaulting to now and the validUntil of
\* the request body.
ManualCreate ==
    /\ mc.pc = "create"
    /\ IF mc.code \in CodesInUse
       THEN /\ mc' = [IdleManual EXCEPT !.pc = "done", !.result = "error"]
            /\ coupons' = coupons
       ELSE /\ coupons' =
                 (ManualId :>
                    CouponDoc("review_reward", mc.business, "u1", 0, mc.code,
                              now, mc.validUntil, Null))
                 @@ coupons
            /\ mc' = [IdleManual EXCEPT !.pc = "done", !.result = "created"]
    /\ UNCHANGED <<now, reviews, rating, log, rv, rd, sw, fn, bizRadius>>

\* ------------------------------------- the suspicious-activity log routes
\* How many activities GET /api/reviews/admin/suspicious-activities returns
\* at most: the default of its `limit` query parameter.
DefaultLimit == 100

\* Lines 637-672, the definition the module exports (it replaces the one of
\* lines 43-59): the response is computed from a copy of the log.
GetSuspiciousActivities ==
    /\ fn' = [op |-> "getSuspiciousActivities",
              count |-> IF Len(log) < DefaultLimit THEN Len(log)
                        ELSE DefaultLimit,
              total |-> Len(log)]
    /\ fn' # fn
    /\ UNCHANGED <<now, reviews, rating, coupons, log, rv, rd, sw, mc, bizRadius>>

\* Lines 724-738: DELETE /api/reviews/admin/suspicious-activities.
ClearSuspiciousActivities ==
    /\ log # <<>>
    /\ log' = <<>>
    /\ UNCHANGED <<now, reviews, rating, coupons, rv, rd, sw, mc, fn, bizRadius>>

\* ------------------------------------------------------------- the clock
\* ------------------------------------------------- the business radius
\* The business a registration request creates.
NewBusiness == 5
\* The radius a request body may carry: absent, null, or a number below,
\* at or above the limits of the schema.
RadiusRequests ==
    {Undefined, Null, 0, MinRadius - 1, MinRadius, DefaultRadius, MaxRadius,
     MaxRadius + 1}

\* The min and max validators of businessSchema.radius: like every Mongoose
\* number validator they pass a null value.
RadiusValid(x) == x = Null \/ (x >= MinRadius /\ x <= MaxRadius)

\* business.controller registerBusiness behind validate(createBusiness):
\* Joi turns down null and numbers outside 10..500; the handler stores
\* `radius || 50`.
RegisterBusiness ==
    /\ NewBusiness \notin DOMAIN bizRadius
    /\ \E x \in RadiusRequests :
         IF x # Undefined /\ (x = Null \/ x < MinRadius \/ x > MaxRadius)
         THEN /\ bizRadius' = bizRadius
              /\ fn' = [op |-> "registerBusiness", business |-> NewBusiness,
                        radius |-> x, status |-> 400]
         ELSE /\ bizRadius' =
                   (NewBusiness :> (IF x = Undefined THEN DefaultRadius ELSE x))
                   @@ bizRadius
              /\ fn' = [op |-> "registerBusiness", business |-> NewBusiness,
                        radius |-> x, status |-> 201]
    /\ UNCHANGED <<now, reviews, rating, coupons, log, rv, rd, sw, mc>>

\* business.controller updateBusiness (the owner's edit): radius is not
\* among the fields it copies from the body.
OwnerUpdateBusiness ==
    /\ \E b \in DOMAIN bizRadius, x \in RadiusRequests :
         fn' = [op |-> "ownerUpdateBusiness", business |-> b, radius |-> x,
                status |-> 200]
    /\ fn' # fn
    /\ UNCHANGED <<now, reviews, rating, coupons, log, rv, rd, sw, mc,
                   bizRadius>>

\* The admin updateBusiness: any radius that is not undefined goes into the
\* update, and findByIdAndUpdate runs the schema validators on it.
AdminUpdateBusiness ==
    /\ \E b \in DOMAIN bizRadius, x \in RadiusRequests :
         IF x = Undefined
         THEN /\ bizRadius' = bizRadius
              /\ fn' = [op |-> "adminUpdateBusiness", business |-> b,
                        radius |-> x, status |-> 200]
         ELSE IF RadiusValid(x)
         THEN /\ bizRadius' = [bizRadius EXCEPT ![b] = x]
              /\ fn' = [op |-> "adminUpdateBusiness", business |-> b,
                        radius |-> x, status |-> 200]
         ELSE /\ bizRadius' = bizRadius
              /\ fn' = [op |-> "adminUpdateBusiness", business |-> b,
                        radius |-> x, status |-> 400]
    /\ fn' # fn \/ bizRadius' # bizRadius
    /\ UNCHANGED <<now, reviews, rating, coupons, log, rv, rd, sw, mc>>

\* The admin updateBusinessRadius: the handler's own range test, then
\* business.radius = parseInt(radius) and business.save().
UpdateBusinessRadius ==
    /\ \E b \in DOMAIN bizRadius, x \in RadiusRequests :
         IF x \in {Undefined, Null, 0} \/ x < MinRadius \/ x > MaxRadius
         THEN /\ bizRadius' = bizRadius
              /\ fn' = [op |-> "updateBusinessRadius", business |-> b,
                        radius |-> x, status |-> 400]
         ELSE /\ bizRadius' = [bizRadius EXCEPT ![b] = x]
              /\ fn' = [op |-> "updateBusinessRadius", business |-> b,
                        radius |-> x, status |-> 200]
    /\ fn' # fn \/ bizRadius' # bizRadius
    /\ UNCHANGED <<now, reviews, rating, coupons, log, rv, rd, sw, mc>>

\* ------------------------------------------------------ utility functions
\* The radii a business may have (validation schema: min 10, max 500, default
\* 50) and, for each, the distances calculateDistance may have returned: the
\* same point, one metre inside, the boundary, one metre outside.
Radii == {MinRadius, DefaultRadius, MaxRadius}
DistancesAround(radius) == {0, radius - 1, radius, radius + 1}

\* utils/geolocation.js isWithinGeofence, applied to the distance that
\* calculateDistance returned.
IsWithinGeofenceCall ==
    /\ \E radius \in Radii :
         \E distance \in DistancesAround(radius) :
            fn' = [op |-> "isWithinGeofence", distance |-> distance,
                   radius |-> radius,
                   result |-> IsWithinGeofence(distance, radius)]
    /\ UNCHANGED <<now, reviews, rating, coupons, log, rv, rd, sw, mc, bizRadius>>

\* The rewardType enum of the coupon schema.
RewardTypes == {"percentage", "fixed", "buy1get1", "free_drink", "free_item"}
\* rewardValue: a percentage or an amount.
RewardValues == {10, 50, 150}
\* maxDiscountAmount: null (the schema default), 0, or an amount.
MaxDiscounts == {Null, 0, 5, 20}
PurchaseAmounts == {0, 55, 100, 200}
DiscountCoupons ==
    [rewardType : RewardTypes, rewardValue : RewardValues,
     maxDiscountAmount : MaxDiscounts]

\* Amounts are whole numbers; a discount is kept in hundredths so that
\* purchaseAmount * rewardValue / 100 loses nothing.
Hundred == 100
Least(a, b) == IF a <= b THEN a ELSE b

\* calculateDiscount without the cap of percentage coupons.
CalculateDiscount_Uncapped(coupon, purchaseAmount) ==
    IF coupon.rewardType \in {"percentage", "buy1get1"}
    THEN purchaseAmount * coupon.rewardValue
    ELSE Hundred * Least(coupon.rewardValue, purchaseAmount)

\* utils/coupon.js calculateDiscount, in hundredths.  The cap test is
\* `coupon.maxDiscountAmount && ...`: null and 0 are falsy.
CalculateDiscount(coupon, purchaseAmount) ==
    CASE coupon.rewardType = "percentage" ->
           LET discount == purchaseAmount * coupon.rewardValue
           IN  IF /\ coupon.maxDiscountAmount # Null
                  /\ coupon.maxDiscountAmount # 0
                  /\ discount > Hundred * coupon.maxDiscountAmount
               THEN Hundred * coupon.maxDiscountAmount
               ELSE discount
      [] coupon.rewardType = "fixed" ->
           Hundred * Least(coupon.rewardValue, purchaseAmount)
      [] coupon.rewardType = "buy1get1" ->
           purchaseAmount * coupon.rewardValue
      [] coupon.rewardType \in {"free_drink", "free_item"} ->
           Hundred * Least(coupon.rewardValue, purchaseAmount)
      [] OTHER -> 0

\* calculateDiscount applied to a coupon and a purchase amount.
CalculateDiscountCall ==
    /\ \E coupon \in DiscountCoupons, purchaseAmount \in PurchaseAmounts :
         fn' = [op |-> "calculateDiscount", coupon |-> coupon,
                purchaseAmount |-> purchaseAmount,
                discount |-> CalculateDiscount(coupon, purchaseAmount)]
    /\ UNCHANGED <<now, reviews, rating, coupons, log, rv, rd, sw, mc, bizRadius>>

Tick ==
    /\ now < MaxTime
    /\ now' = now + 1
    /\ UNCHANGED <<reviews, rating, coupons, log, rv, rd, sw, mc, fn, bizRadius>>

\* ------------------------------------------------------- specifications
NoDocs == [i \in {} |-> 0]

\* The redemptionLimit an owner may have given the template of business 1.
TemplateLimits == {Null, 1}

\* The templates a run starts with: none, or one active template of
\* business 1.
InitialTemplates ==
    {NoDocs} \cup
    {(TemplateId(1) :> TemplateDoc(1, limit)) : limit \in TemplateLimits}

\* The stores hold the documents of the businesses 1 to 3 and, of the
\* documents of other businesses, the reviews (the rate limit counts them).

\* Reviews that user u1 posted earlier on day 0 for businesses that no
\* request of the run names.
PriorReview(k) ==
    [user |-> "u1", business |-> 10 + k, rating |-> 5,
     createdAt |-> StartTime, deviceId |-> 1, verified |-> TRUE,
     security |-> Snapshot([CleanInput EXCEPT !.deviceId = 1], DefaultRadius),
     couponAwarded |-> TRUE, coupon |-> NoCoupon]

PriorReviews(n) == [i \in {0 - k : k \in 1..n} |-> PriorReview(0 - i)]

\* How many such reviews u1 has posted before the run starts.
PriorCounts == {0, RateLimit - 1, RateLimit}

\* The review and the reward coupon that an accepted createReview request of
\* user u left at StartTime for business 1.
IssuedReview(k, u) ==
    [user |-> u, business |-> 1, rating |-> 5,
     createdAt |-> StartTime, deviceId |-> Null, verified |-> TRUE,
     security |-> Snapshot(CleanInput, DefaultRadius),
     couponAwarded |-> TRUE, coupon |-> RewardId(k)]

IssuedCoupon(k, u, code) ==
    CouponDoc("review_reward", 1, u, k, code,
              StartTime, CouponExpiry(StartTime), Null)

\* What u1 did with business 1 earlier on day 0: nothing (FALSE), or posted a
\* review at StartTime and had its reward coupon scanned and redeemed an hour
\* later (TRUE).
EarlierVisit == BOOLEAN

VisitReviews(v) ==
    IF v THEN (0 :> IssuedReview(0, "u1")) ELSE NoDocs

VisitCoupons(v, tpl) ==
    IF v
    THEN (RewardId(0) :> Redeemed(IssuedCoupon(0, "u1", "HASH-AAAAAA"),
                                  StartTime + 1))
         @@ [t \in DOMAIN tpl |-> [tpl[t] EXCEPT !.usageCount = 1,
                                                 !.redemptionCount = 1]]
    ELSE tpl

IdleSweep == [pc |-> "idle", now |-> 0]

\* No utility function is under evaluation.
NoCall == [op |-> "none"]

InitRequests ==
    /\ rv = [r \in AllReviewReqs |-> IdleReview]
    /\ rd = [d \in AllRedeemReqs |-> IdleRedeem]
    /\ sw = IdleSweep
    /\ mc = IdleManual
    /\ fn = NoCall
    /\ bizRadius = [b \in Businesses |-> DefaultRadius]

\* The log after rejections of u2, one an hour, up to StartTime: the last n
\* of them, oldest first.
EarlierLog(n) ==
    [k \in 1..n |-> [userId |-> "u2", eventType |-> "GEOFENCE_VIOLATION",
                     timestamp |-> StartTime - n + k]]

\* One hour before midnight, after n reviews of u1 elsewhere, the earlier
\* visit v of u1 to business 1 and the rejections that left the log l.
InitStoresLog(n, v, l) ==
    /\ now = Midnight - 1
    /\ reviews = VisitReviews(v) @@ PriorReviews(n)
    /\ rating = [b \in Businesses |->
                   IF v /\ b = 1 THEN [sum |-> 5, count |-> 1]
                   ELSE [sum |-> 0, count |-> 0]]
    /\ \E tpl \in InitialTemplates : coupons = VisitCoupons(v, tpl)
    /\ log = l
    /\ InitRequests

InitStores(n, v) == InitStoresLog(n, v, <<>>)

\* The steps of a createReview request that has arrived.
AfterArrival(r) ==
    \/ RateCheck(r)
    \/ DuplicateAndSecurityChecks(r)
    \/ DeviceCheck(r)
    \/ PersistReview(r)
    \/ ReadBusinessReviews(r)
    \/ SaveBusinessRating(r)
    \/ FindTemplate(r)
    \/ CheckRedemptionLimit(r)
    \/ MintCoupon(r)
    \/ IncrementUsage(r)
    \/ LinkReview(r)
    \/ NotifyUser(r)
    \/ NotifyOwner(r)
    \/ Respond(r)

ReviewStep(r) == FindBusiness(r) \/ AfterArrival(r)

RedeemStep(d) ==
    \/ RedeemFind(d)
    \/ RedeemCheck(d)
    \/ RedeemSave(d)
    \/ ScanFind(d)
    \/ ScanSaveExpired(d)
    \/ ScanSaveRedeemed(d)
    \/ ScanFindTemplate(d)
    \/ ScanIncrement(d)

\* The histories a run of createReview requests starts from: u1 new to the
\* day, with or without the earlier visit to business 1 and whatever template
\* the business has; or u1 at the rate limit or one review short of it, at
\* businesses without a template.
InitReview ==
    \/ \E v \in EarlierVisit : InitStores(0, v)
    \/ \E n \in PriorCounts \ {0} : InitStores(n, FALSE) /\ coupons = NoDocs

\* createReview requests, one after another, and the clock.
NextReview ==
    \/ \E r \in ReviewReqs :
         /\ IF r = 1 THEN TRUE ELSE rv[r - 1].pc = "done"
         /\ ReviewStep(r)
    \/ Tick

SpecReview == InitReview /\ [][NextReview]_vars

InitReviewRace == InitStores(0, FALSE)

\* Two concurrent createReview requests that both run within the hour.
NextReviewRace ==
    \E r \in RacingReviews : ReviewStep(r)

SpecReviewRace == InitReviewRace /\ [][NextReviewRace]_vars

\* ---- one createReview request, over the combinations of its metadata
\* Every combination of the security metadata of a request body, each field
\* absent, at its threshold or one past it.
AllBodies ==
    [distance : {0, DefaultRadius, DefaultRadius + 1},
     locationAccuracy : {Null, MaxAccuracy, MaxAccuracy + 1},
     verificationTime : {Null, ExpectedVerificationTime,
                         ExpectedVerificationTime - 20},
     isMockLocation : BOOLEAN,
     locationHistoryCount : {Null, MinLocationHistory - 1, MinLocationHistory},
     anomalies : 0..MaxAnomalies,
     deviceId : {Null, 1}]

\* u1 new to the day, or after RateLimit - 1 reviews elsewhere, all posted
\* from device 1.
InitChecks == \E n \in {0, RateLimit - 1} : InitStores(n, FALSE)

NextChecks == FindBusinessFrom(1, AllBodies) \/ AfterArrival(1)

SpecChecks == InitChecks /\ [][NextChecks]_vars

\* ---- the suspicious-activity log: one createReview request and the admin
\* routes, from an empty log, a log two entries short of its capacity and a
\* full log
InitLog ==
    /\ \E n \in {0, LogCapacity - 2, LogCapacity} :
         InitStoresLog(0, FALSE, EarlierLog(n))
    /\ TemplateId(1) \in DOMAIN coupons
    /\ coupons[TemplateId(1)].redemptionLimit # Null

NextLog ==
    \/ ReviewStep(1)
    \/ GetSuspiciousActivities
    \/ ClearSuspiciousActivities

SpecLog == InitLog /\ [][NextLog]_vars

\* ---- coupon issuance: createReview requests and POST /api/coupons
NextIssue ==
    \/ NextReview
    \/ ManualFindBusiness
    \/ ManualGenerateCode
    \/ ManualCreate

InitIssue == \E v \in EarlierVisit : InitStores(0, v)

SpecIssue == InitIssue /\ [][NextIssue]_vars

\* ---- the utility functions on their own
InitUtils == InitStores(0, FALSE) /\ coupons = NoDocs

NextUtils == IsWithinGeofenceCall \/ CalculateDiscountCall

SpecUtils == InitUtils /\ [][NextUtils]_vars

\* ---- one createReview request of an actor who may be at every check at once
\* u1 has reviewed both active businesses today (the coupon of the review of
\* business 2 could not be stored) and n businesses elsewhere: 4 or 5
\* reviews today.  u2 has none.
InitOrder ==
    /\ now = Midnight - 1
    /\ \E n \in {RateLimit - 3, RateLimit - 2} :
         reviews = VisitReviews(TRUE)
                   @@ (3 :> [IssuedReview(3, "u1")
                               EXCEPT !.business = 2, !.couponAwarded = FALSE,
                                      !.coupon = NoCoupon])
                   @@ PriorReviews(n)
    /\ rating = [b \in Businesses |->
                   IF b \in {1, 2} THEN [sum |-> 5, count |-> 1]
                   ELSE [sum |-> 0, count |-> 0]]
    /\ \E tpl \in InitialTemplates : coupons = VisitCoupons(TRUE, tpl)
    /\ log = <<>>
    /\ InitRequests

NextOrder == FindBusinessFrom(1, AllBodies) \/ AfterArrival(1)

SpecOrder == InitOrder /\ [][NextOrder]_vars

\* ---- the radius of the businesses under every request that names it
InitRadius == InitStores(0, FALSE) /\ coupons = NoDocs

NextRadius ==
    \/ RegisterBusiness
    \/ OwnerUpdateBusiness
    \/ AdminUpdateBusiness
    \/ UpdateBusinessRadius

SpecRadius == InitRadius /\ [][NextRadius]_vars

\* ---- redemption of issued coupons
\* The stores after u1 and u2 each had a review of business 1 accepted at
\* StartTime: two reviews, the rating aggregate, two active reward coupons
\* and, when the business has a template, its usageCount of 2.
InitIssued ==
    /\ now = StartTime
    /\ reviews = (0 :> IssuedReview(0, "u1")) @@ (3 :> IssuedReview(3, "u2"))
    /\ rating = [b \in Businesses |->
                   IF b = 1 THEN [sum |-> 10, count |-> 2]
                   ELSE [sum |-> 0, count |-> 0]]
    /\ \E tpl \in InitialTemplates :
         coupons = (RewardId(0) :> IssuedCoupon(0, "u1", "HASH-AAAAAA"))
                   @@ (RewardId(3) :> IssuedCoupon(3, "u2", "HASH-AAAAAB"))
                   @@ [t \in DOMAIN tpl |-> [tpl[t] EXCEPT !.usageCount = 2]]
    /\ log = <<>>
    /\ InitRequests

Sweep == SweepFind \/ SweepUpdate

\* Redemption requests one after another, the expiry job and the clock.
NextRedeem ==
    \/ \E d \in RedeemReqs :
         /\ IF d = 1 THEN TRUE ELSE rd[d - 1].pc = "done"
         /\ RedeemStep(d)
    \/ SweepFind
    \/ SweepUpdate
    \/ Tick

SpecRedeem == InitIssued /\ [][NextRedeem]_vars

\* ---- the expiry job over coupons of every kind
\* The stores an hour after StartTime: the reward coupon of u1 issued at
\* StartTime, the reward coupon of u2 issued an hour later (it outlives the
\* first by an hour), a coupon an owner created by hand without a validUntil
\* and, when the business has one, its template.
InitSweep ==
    /\ now = StartTime + 1
    /\ reviews = (0 :> IssuedReview(0, "u1"))
                 @@ (3 :> [IssuedReview(3, "u2")
                             EXCEPT !.createdAt = StartTime + 1])
    /\ rating = [b \in Businesses |->
                   IF b = 1 THEN [sum |-> 10, count |-> 2]
                   ELSE [sum |-> 0, count |-> 0]]
    /\ \E tpl \in InitialTemplates :
         coupons = (RewardId(0) :> IssuedCoupon(0, "u1", "HASH-AAAAAA"))
                   @@ (RewardId(3) :>
                         CouponDoc("review_reward", 1, "u2", 3, "HASH-AAAAAB",
                                   StartTime + 1, CouponExpiry(StartTime + 1),
                                   Null))
                   @@ (ManualId :>
                         CouponDoc("review_reward", 2, "u1", 0, "HASH-AAAAAC",
                                   StartTime, Undefined, Null))
                   @@ [t \in DOMAIN tpl |-> [tpl[t] EXCEPT !.usageCount = 2]]
    /\ log = <<>>
    /\ InitRequests

\* Redemption requests one after another, the expiry job and the clock.
NextSweep ==
    \/ \E d \in RedeemReqs :
         /\ IF d = 1 THEN TRUE ELSE rd[d - 1].pc = "done"
         /\ RedeemStep(d)
    \/ SweepFind
    \/ SweepUpdate
    \/ Tick

SpecSweep == InitSweep /\ [][NextSweep]_vars

\* The same with the schedule of the job: cron starts expireCoupons every 5
\* minutes, so a run that can start does start and a run that has started
\* reaches its updateMany.
SpecSweepFair ==
    /\ InitSweep
    /\ [][NextSweep]_vars
    /\ WF_vars(SweepFind)
    /\ WF_vars(SweepUpdate)

\* The expiry job and the clock alone, with the same schedule.
NextSweepAlone == SweepFind \/ SweepUpdate \/ Tick

SpecSweepAlone ==
    /\ InitSweep
    /\ [][NextSweepAlone]_vars
    /\ WF_vars(SweepFind)
    /\ WF_vars(SweepUpdate)

\* Two concurrent redemption requests, the expiry job and the clock.
NextRedeemRace ==
    \/ \E d \in RacingRedeems : RedeemStep(d)
    \/ SweepFind
    \/ SweepUpdate
    \/ Tick

SpecRedeemRace == InitIssued /\ [][NextRedeemRace]_vars

\* ================================================================ claims
Day(t) == t \div DayHours

\* Successful redemptions of coupon c among the finished requests.
Successes(c) ==
    {d \in AllRedeemReqs : rd[d].pc = "done" /\ rd[d].coupon = c
                           /\ rd[d].result = "redeemed"}

\* C1: of the redemption attempts against one coupon id, through either
\* route and however they interleave, at most one returns success.
C1_AtMostOneSuccess ==
    \A c \in DOMAIN coupons : Cardinality(Successes(c)) <= 1

\* C2: a review_reward coupon leaves `active` at most once: once redeemed it
\* stays redeemed and once expired it stays expired, over every interleaving
\* of redemption attempts and expiry sweeps.
C2_TerminalStatus ==
    [][\A c \in DOMAIN coupons :
         coupons[c].type = "review_reward" =>
           /\ coupons[c].status = "redeemed" => coupons'[c].status = "redeemed"
           /\ coupons[c].status = "expired" => coupons'[c].status = "expired"
      ]_vars

\* C3: the review store never holds two reviews of one author for one
\* business created on the same calendar day, concurrent createReview calls
\* of that author included.
C3_OneReviewPerDay ==
    \A i, j \in DOMAIN reviews :
        (/\ i # j
         /\ reviews[i].user = reviews[j].user
         /\ reviews[i].business = reviews[j].business)
        => Day(reviews[i].createdAt) # Day(reviews[j].createdAt)

\* The reviews of user u created on the day of time t.
C4_ReviewsOfDay(u, t) ==
    {i \in DOMAIN reviews :
        reviews[i].user = u /\ Day(reviews[i].createdAt) = Day(t)}

\* C4: a submission for an active business that reaches the rate check is
\* rejected with the rate-limit error exactly when its actor already has 5
\* or more reviews created since 00:00 today, and that rejection adds no
\* review; no other step gives the rate-limit error.  With 4 reviews today
\* the submission goes on to the next check.
C4_RateLimitBoundary ==
    [][\A r \in ReviewReqs :
         /\ (rv[r].pc = "rate" /\ rv'[r] # rv[r]) =>
              /\ (rv'[r].result = "rate_limit")
                   <=> (Cardinality(C4_ReviewsOfDay(rv[r].user, now)) >= 5)
              /\ (rv'[r].result # "rate_limit") => rv'[r].pc = "dup"
              /\ reviews' = reviews
         /\ (rv[r].pc # "rate" /\ rv[r].result # "rate_limit")
              => rv'[r].result # "rate_limit"
      ]_vars

\* An actor with 4 reviews that day had a 5th accepted.
C4_FifthAccepted ==
    \E r \in ReviewReqs :
        /\ rv[r].pc = "done"
        /\ rv[r].result \in {"created", "created_no_coupon"}
        /\ r \in DOMAIN reviews
        /\ Cardinality(C4_ReviewsOfDay(reviews[r].user, reviews[r].createdAt)) = 5

\* The coupons issued for the review of request r.
CouponsForReview(r) ==
    {c \in DOMAIN coupons :
        coupons[c].type = "review_reward" /\ coupons[c].review = r}

\* C5: the step that rejects a submission (business missing or not active,
\* rate limit, duplicate, geofence, a fraud reject rule) changes neither the
\* review store nor a rating aggregate nor the coupon store, and a rejected
\* request has left no review and no coupon behind; it can only have
\* appended to the suspicious-activity log.
C5_RejectionWritesNothing ==
    /\ [](\A r \in ReviewReqs :
            rv[r].result \in Rejections =>
              r \notin DOMAIN reviews /\ CouponsForReview(r) = {})
    /\ [][\A r \in ReviewReqs :
            (rv[r].pc # "done" /\ rv'[r].result \in Rejections) =>
              /\ reviews' = reviews
              /\ rating' = rating
              /\ coupons' = coupons
              /\ Len(log') >= Len(log)
              /\ SubSeq(log', 1, Len(log)) = log
         ]_vars

\* A submission was rejected for a fraud rule after other reviews had been
\* stored, and its rejection was logged.
C5_RejectedAfterLog ==
    \E r \in ReviewReqs :
        /\ rv[r].result \in {"geofence", "gps", "mock", "anomalies"}
        /\ Len(log) > 0
        /\ DOMAIN reviews # {}

\* C6: a createReview whose review has been persisted ends in a success
\* response, whatever fails afterwards (such as the coupon creation hitting
\* a duplicate code).
C6_PersistedMeansSuccess ==
    \A r \in ReviewReqs :
        (rv[r].pc = "done" /\ r \in DOMAIN reviews)
        => rv[r].result \in {"created", "created_no_coupon"}

\* The business of request r's review has an active template whose
\* redemptionLimit is set and reached by its redeemed reward coupons.
C7_LimitMet(r) ==
    \E t \in TemplateIds(reviews[r].business) :
        /\ coupons[t].redemptionLimit # Null
        /\ RedeemedCount(reviews[r].business) >= coupons[t].redemptionLimit

\* C7: a finished createReview that persisted its review created no coupon
\* and answered success when the redemption limit was met, and created
\* exactly one coupon otherwise (limit not met, limit null, no template).
\* (No redemption runs in SpecIssue, so the count at the end of the request
\* is the count the request read.)
C7_LimitDecidesMint ==
    \A r \in ReviewReqs :
        (rv[r].pc = "done" /\ r \in DOMAIN reviews) =>
            IF C7_LimitMet(r)
            THEN rv[r].result = "created_no_coupon"
                 /\ CouponsForReview(r) = {}
            ELSE Cardinality(CouponsForReview(r)) = 1

\* C8: the redeemed review_reward coupons of a business never outnumber the
\* redemptionLimit of its active template.
C8_RedeemedWithinLimit ==
    \A b \in Businesses : \A t \in TemplateIds(b) :
        coupons[t].redemptionLimit # Null
        => RedeemedCount(b) <= coupons[t].redemptionLimit

\* C9: a template with a redemptionLimit has redemptionCount <= that limit.
C9_CountWithinLimit ==
    \A t \in DOMAIN coupons :
        (coupons[t].type = "business" /\ coupons[t].redemptionLimit # Null)
        => coupons[t].redemptionCount <= coupons[t].redemptionLimit

\* C10: every stored review_reward coupon is valid for exactly 2 hours.
C10_TwoHourWindow ==
    \A c \in DOMAIN coupons :
        coupons[c].type = "review_reward"
        => /\ IsDate(coupons[c].validFrom)
           /\ IsDate(coupons[c].validUntil)
           /\ coupons[c].validUntil - coupons[c].validFrom = 2

\* C11: a createReview request whose body has isMockLocation = true stores
\* no review and no coupon, whatever the distance, GPS accuracy, verification
\* time, location history, anomaly count and device fingerprint of the body:
\* while the body is in use the request has nothing stored, the step that
\* consumes the body ends the request with a rejection, and a rejected
\* request has stored nothing.
C11_MockNeverPersists ==
    /\ [](\A r \in AllReviewReqs :
            (rv[r].body.isMockLocation \/ rv[r].result \in Rejections)
            => r \notin DOMAIN reviews /\ CouponsForReview(r) = {})
    /\ [][\A r \in AllReviewReqs :
            (rv[r].body.isMockLocation /\ rv'[r] # rv[r]) =>
               \/ rv'[r].pc = "dup" /\ rv'[r].body = rv[r].body
               \/ rv'[r].pc = "done" /\ rv'[r].result \in Rejections
         ]_vars

\* A request was rejected for its mock location after the verification-time
\* mismatch of the same body had been logged.
C11_MockRejected ==
    \E r \in AllReviewReqs :
        /\ rv[r].result = "mock"
        /\ Len(log) >= 2
        /\ log[Len(log)].eventType = "MOCK_LOCATION_DETECTED"

\* The event types a step appended to the log (the log is below capacity).
Appended == [k \in 1..(Len(log') - Len(log)) |-> log'[Len(log) + k].eventType]

\* The fraud rule an event type belongs to, in the claimed numbering; 0 for
\* the events of no fraud rule.
C12_Rule(type) ==
    CASE type = "POOR_GPS_ACCURACY" -> 1
      [] type = "MOCK_LOCATION_DETECTED" -> 2
      [] type = "FRONTEND_ANOMALY" -> 3
      [] type = "INSUFFICIENT_LOCATION_HISTORY" -> 5
      [] type = "MULTIPLE_DEVICE_REVIEWS" -> 6
      [] OTHER -> 0

\* The reject rule a rejection reason belongs to.
C12_RejectRule(reason) ==
    CASE reason = "gps" -> 1 [] reason = "mock" -> 2 [] reason = "anomalies" -> 3

\* The first reject rule that fires on body b, or "ok".
C12_FirstReject(b) ==
    IF b.locationAccuracy # Null /\ b.locationAccuracy > 50 THEN "gps"
    ELSE IF b.isMockLocation THEN "mock"
    ELSE IF b.anomalies >= 3 THEN "anomalies"
    ELSE "ok"

\* The step of request r that runs the fraud rules on its body (the body
\* has passed the duplicate and the geofence check).
C12_FraudStep(r) ==
    /\ rv[r].pc = "dup"
    /\ rv'[r] # rv[r]
    /\ rv'[r].result \notin {"duplicate", "geofence"}

\* C12 as claimed: the rejection reason is that of the first firing reject
\* rule in the order GPS accuracy, mock location, anomaly count, and a
\* rejected submission records no event of a rule numbered after the
\* rejecting one (anomaly rules 3-4, location history 5, same device 6).
C12_ClaimedOrder ==
    [][\A r \in AllReviewReqs :
         C12_FraudStep(r) =>
           LET first == C12_FirstReject(rv[r].body)
           IN  /\ rv'[r].result = IF first = "ok" THEN "none" ELSE first
               /\ first # "ok" =>
                    \A k \in DOMAIN Appended :
                        C12_Rule(Appended[k]) <= C12_RejectRule(first)
      ]_vars

\* The events of fraud rules that the rules, taken in the order of the
\* code, record for body b: GPS accuracy, mock location, location history,
\* then the anomalies one by one.
C12_RuleEvents(b) ==
    LET first == C12_FirstReject(b)
    IN  IF first = "gps" THEN <<"POOR_GPS_ACCURACY">>
        ELSE IF first = "mock" THEN <<"MOCK_LOCATION_DETECTED">>
        ELSE (IF b.locationHistoryCount # Null /\ b.locationHistoryCount < 5
              THEN <<"INSUFFICIENT_LOCATION_HISTORY">> ELSE <<>>)
             \o [k \in 1..b.anomalies |-> "FRONTEND_ANOMALY"]

C12_IsRuleEvent(type) == C12_Rule(type) # 0

\* C12 as amended: the rules run in the order GPS accuracy > 50 (reject),
\* mock location (reject), location-history count < 5 (flag), client
\* anomalies (each recorded; 3 or more reject, 1-2 flag), same-device count
\* >= 3 (flag).  The rejection reason is that of the first firing reject
\* rule, the events recorded are those of the rules up to the rejecting one
\* in this order, and the same-device rule records only for a submission
\* that no rule rejected.
C12_CodeOrder ==
    [][/\ \A r \in AllReviewReqs :
            C12_FraudStep(r) =>
              LET first == C12_FirstReject(rv[r].body)
              IN  /\ rv'[r].result = IF first = "ok" THEN "none" ELSE first
                  /\ SelectSeq(Appended, C12_IsRuleEvent)
                       = C12_RuleEvents(rv[r].body)
                  /\ (rv'[r].pc = "device") <=>
                       (first = "ok" /\ rv[r].body.deviceId # Null)
       /\ (\E k \in DOMAIN Appended : Appended[k] = "MULTIPLE_DEVICE_REVIEWS")
            => \E r \in AllReviewReqs : rv[r].pc = "device" /\ rv'[r] # rv[r]
      ]_vars

\* A submission was rejected for its anomaly count after its short location
\* history had been recorded.
C12_HistoryBeforeAnomalyReject ==
    \E r \in AllReviewReqs :
        /\ rv[r].result = "anomalies"
        /\ \E i, j \in DOMAIN log :
             /\ i < j
             /\ log[i].eventType = "INSUFFICIENT_LOCATION_HISTORY"
             /\ log[j].eventType = "FRONTEND_ANOMALY"

\* How many of the appended events are of the given type.
C13_Count(type) == Cardinality({k \in DOMAIN Appended : Appended[k] = type})

\* The reviews user u posted today from device dev.
C13_SameDevice(u, dev) ==
    {i \in DOMAIN reviews :
        /\ reviews[i].user = u
        /\ reviews[i].deviceId = dev
        /\ Day(reviews[i].createdAt) = Day(now)}

\* C13: a submission that has passed the rate, duplicate and geofence checks
\* and fires no reject rule goes on to store its review whatever soft signal
\* it triggers, and every triggered soft signal appends its entry for the
\* actor: one per client-reported anomaly (1-2), one for a location-history
\* count below 5, one for 3 or more same-device reviews today.
C13_SoftSignalsLogAndProceed ==
    [][\A r \in AllReviewReqs :
         /\ (C12_FraudStep(r) /\ C12_FirstReject(rv[r].body) = "ok") =>
              /\ rv'[r].pc \in {"device", "create"}
              /\ C13_Count("FRONTEND_ANOMALY") = rv[r].body.anomalies
              /\ C13_Count("INSUFFICIENT_LOCATION_HISTORY") =
                   IF rv[r].body.locationHistoryCount \in 0..4 THEN 1 ELSE 0
              /\ \A k \in (Len(log) + 1)..Len(log') :
                   log'[k].userId = rv[r].user
         /\ (rv[r].pc = "device" /\ rv'[r] # rv[r]) =>
              /\ rv'[r].pc = "create"
              /\ C13_Count("MULTIPLE_DEVICE_REVIEWS") =
                   IF Cardinality(C13_SameDevice(rv[r].user, rv[r].deviceId)) >= 3
                   THEN 1 ELSE 0
              /\ \A k \in (Len(log) + 1)..Len(log') :
                   log'[k].userId = rv[r].user
         /\ (rv[r].pc = "create" /\ rv'[r] # rv[r]) =>
              /\ r \in DOMAIN reviews'
              /\ reviews'[r].user = rv[r].user
              /\ reviews'[r].business = rv[r].business
      ]_vars

\* A review was stored for a submission that triggered all three soft
\* signals, each of them in the log under its author.
C13_FlaggedAndStored ==
    \E r \in AllReviewReqs :
        /\ r \in DOMAIN reviews
        /\ \A type \in {"FRONTEND_ANOMALY", "INSUFFICIENT_LOCATION_HISTORY",
                        "MULTIPLE_DEVICE_REVIEWS"} :
             \E k \in DOMAIN log : /\ log[k].eventType = type
                                   /\ log[k].userId = reviews[r].user

\* A step in which a request is rejected by a check that records the
\* rejection.
C14_Recording ==
    \E r \in AllReviewReqs :
        /\ rv[r].pc # "done"
        /\ rv'[r].result \in {"rate_limit", "geofence", "gps", "mock",
                               "anomalies"}

\* C14: the log never holds more than 1000 entries and holds them in
\* insertion order (oldest first); a step that records entries appends them
\* last, in order, and removes from the front exactly as many of the oldest
\* entries as the log would exceed 1000 by -- none while it stays within
\* 1000; reading the log leaves it as it is.
C14_BoundedFifo ==
    /\ [](/\ Len(log) <= 1000
          /\ \A k \in 1..(Len(log) - 1) :
               log[k].timestamp <= log[k + 1].timestamp)
    /\ [][\/ log' = log /\ ~C14_Recording
          \/ log' = <<>> /\ ~C14_Recording
          \/ \E a \in 1..5 :
               LET over == Len(log) + a - 1000
                   drop == IF over > 0 THEN over ELSE 0
               IN  /\ Len(log') = Len(log) + a - drop
                   /\ \A k \in 1..(Len(log) - drop) : log'[k] = log[k + drop]
                   /\ \A k \in (Len(log) - drop + 1)..Len(log') :
                        log'[k].timestamp = now
         ]_vars

\* A record on the full log evicted its oldest entry: the log is full, its
\* newest entry is of this hour and its oldest is no longer the one the full
\* log started with.
C14_Evicted ==
    /\ Len(log) = 1000
    /\ log[1000].timestamp = now
    /\ log[1].timestamp > StartTime - 1000 + 1

\* C15: one run of the expiry job, whose clock reading is sw.now, sets status
\* to "expired" on exactly the coupons that are of type review_reward, active
\* and have a validUntil before that reading; every other coupon, every
\* other field of the expired coupons, the reviews and the rating aggregates
\* stay as they were; and nothing is left for a second run with the same
\* reading to change.
C15_Due(c, t) ==
    /\ c.type = "review_reward"
    /\ c.status = "active"
    /\ c.validUntil \notin {Null, Undefined}
    /\ c.validUntil < t

C16_Stars(ids, s) == Cardinality({i \in ids : reviews[i].rating = s})

C16_Total(ids) ==
    C16_Stars(ids, 1) + 2 * C16_Stars(ids, 2) + 3 * C16_Stars(ids, 3)
    + 4 * C16_Stars(ids, 4) + 5 * C16_Stars(ids, 5)

C16_Recomputing == \E r \in AllReviewReqs : rv[r].pc \in {"find", "save"}

C16_RatingIsMean ==
    ~C16_Recomputing =>
       \A b \in Businesses :
          LET ids == {i \in DOMAIN reviews : reviews[i].business = b}
          IN  /\ rating[b].count = Cardinality(ids)
              /\ rating[b].sum = C16_Total(ids)

\* Witness of C16: a request has been answered 201 for a 1-star review of a
\* business that already had a 5-star review, and the aggregate is 6 / 2.
C16_MeanOfTwo ==
    \E r \in AllReviewReqs :
       /\ rv[r].pc = "done"
       /\ rv[r].result = "created"
       /\ r \in DOMAIN reviews
       /\ reviews[r].rating = 1
       /\ \E i \in DOMAIN reviews \ {r} :
             reviews[i].business = reviews[r].business /\ reviews[i].rating = 5
       /\ rating[reviews[r].business] = [sum |-> 6, count |-> 2]

\* C17: the response of createReview does not wait on the notifier: while a
\* notification call of a request is outstanding (it may succeed, fail or
\* never complete), the request has already produced its response.
C17_ResponseDoesNotWait ==
    \A r \in AllReviewReqs :
       rv[r].pc \in {"notify_user", "notify_owner"} => rv[r].result # "none"

\* C18: issuing a reward coupon never attempts to store a code that another
\* coupon holds: the step that leaves the mint of a request is never the
\* store turning the generated code down.
C18_NeverStoresTakenCode ==
    [][\A r \in AllReviewReqs :
         (rv[r].pc = "mint" /\ rv'[r].pc # "mint")
         => (rv'[r].result # "error" /\ RewardId(r) \in DOMAIN coupons')]_vars

\* C19: isWithinGeofence answers true exactly when the distance does not
\* exceed the radius; a point exactly radius metres away is inside.
C19_InsideIffNotBeyond ==
    fn.op = "isWithinGeofence" =>
       /\ fn.result \in BOOLEAN
       /\ fn.result <=> ~(fn.distance > fn.radius)
       /\ fn.distance = fn.radius => fn.result

\* Witness of C19: the function was applied to a point exactly on the
\* boundary of the default radius and answered true.
C19_BoundaryInside ==
    /\ fn.op = "isWithinGeofence"
    /\ fn.radius = DefaultRadius
    /\ fn.distance = fn.radius
    /\ fn.result = TRUE

\* C20: calculateDiscount returns (in hundredths) purchaseAmount * rewardValue
\* for percentage, brought down to maxDiscountAmount whenever one is set
\* (the code and every writer of the field take null and 0 as not set);
\* the smaller of rewardValue and purchaseAmount for fixed, free_drink and
\* free_item; purchaseAmount * rewardValue, uncapped, for buy1get1.
C20_CapSet(c) == c.maxDiscountAmount \notin {Null, 0}

C20_DiscountFormula ==
    fn.op = "calculateDiscount" =>
       LET c == fn.coupon
           p == fn.purchaseAmount
           d == fn.discount
       IN  /\ c.rewardType = "percentage" =>
                /\ d <= p * c.rewardValue
                /\ C20_CapSet(c) =>
                      /\ d <= 100 * c.maxDiscountAmount
                      /\ d \in {p * c.rewardValue, 100 * c.maxDiscountAmount}
                /\ ~C20_CapSet(c) => d = p * c.rewardValue
           /\ c.rewardType \in {"fixed", "free_drink", "free_item"} =>
                /\ d <= 100 * c.rewardValue
                /\ d <= 100 * p
                /\ d \in {100 * c.rewardValue, 100 * p}
           /\ c.rewardType = "buy1get1" => d = p * c.rewardValue

\* Witness of C20: a percentage coupon of 10 with a cap of 5 on a purchase
\* of 100 gave a discount of 5.
C20_CappedAtFive ==
    /\ fn.op = "calculateDiscount"
    /\ fn.coupon.rewardType = "percentage"
    /\ fn.coupon.rewardValue = 10
    /\ fn.coupon.maxDiscountAmount = 5
    /\ fn.purchaseAmount = 100
    /\ fn.discount = 500

\* C21: every stored business has a radius within 10..500, whatever
\* registrations, owner edits, admin updateBusiness and admin
\* updateBusinessRadius requests have run.
C21_RadiusInRange ==
    \A b \in DOMAIN bizRadius :
       bizRadius[b] >= MinRadius /\ bizRadius[b] <= MaxRadius

\* C22: createReview checks in the order rate limit, duplicate, geofence,
\* fraud rules.  A request whose actor has 5 reviews today ends at the rate
\* limit and records only RATE_LIMIT_EXCEEDED, whatever else would fail; past
\* it, a same-day review of the business ends the request as a duplicate
\* with nothing recorded; past that, a distance beyond the radius ends it
\* with only GEOFENCE_VIOLATION recorded; and only past all three do the
\* fraud rules decide, recording no event of the earlier checks.
C22_Events == {Appended[k] : k \in DOMAIN Appended}

C22_Duplicate(r) ==
    \E i \in C4_ReviewsOfDay(rv[r].user, now) :
       reviews[i].business = rv[r].business

C22_CheckOrder ==
    [][\A r \in AllReviewReqs :
         /\ (rv[r].pc = "rate" /\ rv'[r] # rv[r]) =>
              IF Cardinality(C4_ReviewsOfDay(rv[r].user, now)) >= 5
              THEN /\ rv'[r].pc = "done"
                   /\ rv'[r].result = "rate_limit"
                   /\ Appended = <<"RATE_LIMIT_EXCEEDED">>
              ELSE /\ rv'[r].pc = "dup"
                   /\ log' = log
         /\ (rv[r].pc = "dup" /\ rv'[r] # rv[r]) =>
              IF C22_Duplicate(r)
              THEN /\ rv'[r].pc = "done"
                   /\ rv'[r].result = "duplicate"
                   /\ log' = log
              ELSE IF rv[r].body.distance > rv[r].radius
              THEN /\ rv'[r].pc = "done"
                   /\ rv'[r].result = "geofence"
                   /\ Appended = <<"GEOFENCE_VIOLATION">>
              ELSE /\ rv'[r].result = (IF C12_FirstReject(rv[r].body) = "ok"
                                       THEN "none"
                                       ELSE C12_FirstReject(rv[r].body))
                   /\ C22_Events \cap {"RATE_LIMIT_EXCEEDED",
                                       "GEOFENCE_VIOLATION"} = {}
         /\ (rv[r].pc \notin {"rate", "dup"} /\ rv'[r] # rv[r]) =>
              \/ rv'[r].result \notin Rejections
              \/ rv[r].pc = "idle"]_vars

\* Witness of C22: u1, who has 5 reviews today and has reviewed every active
\* business today, was turned down for the rate limit, and the rate-limit
\* event is all the log holds.
C22_RateLimitBeforeDuplicate ==
    /\ rv[1].pc = "done"
    /\ rv[1].result = "rate_limit"
    /\ Cardinality(C4_ReviewsOfDay("u1", now)) = 5
    /\ \A b \in {c \in Businesses : BusinessStatus(c) = "active"} :
          \E i \in C4_ReviewsOfDay("u1", now) : reviews[i].business = b
    /\ Len(log) = 1
    /\ log[1].userId = "u1"
    /\ log[1].eventType = "RATE_LIMIT_EXCEEDED"

\* C23: every createReview that answers with success has gone through the
\* notifications: the step that produces a success response is the one that
\* follows the new-review notification to the business owner.
C23_SuccessAfterOwnerNotified ==
    [][\A r \in AllReviewReqs :
         (/\ rv[r].pc # "done"
          /\ rv'[r].pc = "done"
          /\ rv'[r].result \in {"created", "created_no_coupon"})
         => rv[r].pc = "respond"]_vars

\* C24: a redemption sets a coupon to redeemed only if, at the moment of the
\* write, the coupon is active and now is not after its validUntil.
C24_RedeemsOnlyValid ==
    [][\A c \in DOMAIN coupons :
         (coupons'[c] # coupons[c] /\ coupons'[c].status = "redeemed")
         => /\ coupons[c].status = "active"
            /\ ~(IsDate(coupons[c].validUntil) /\ now > coupons[c].validUntil)
      ]_vars

\* C25: with the expiry job running on its schedule, every review_reward
\* coupon that is still active once its validUntil has passed eventually has
\* status expired.
C25_RewardIds == {RewardId(0), RewardId(3), ManualId}

C25_Lapsed(c) ==
    /\ coupons[c].type = "review_reward"
    /\ coupons[c].status = "active"
    /\ IsDate(coupons[c].validUntil)
    /\ now > coupons[c].validUntil

C25_LapsedEventuallyExpired ==
    \A c \in C25_RewardIds :
       C25_Lapsed(c) ~> (coupons[c].status = "expired")

\* C26: verificationTime is advisory.  Set beside the submission a request
\* makes its twin, the submission that differs from it only in
\* verificationTime (absent, 30 or 10), in the same store state: both get
\* the same verdict and record the same events apart from
\* VERIFICATION_TIME_MISMATCH, which is recorded at most once and only for a
\* value that is present and not 30; the review stored on acceptance is the
\* twin's apart from the stored verificationTime; and the steps that follow
\* (rating, template, coupon, notifications) run without the request body.
C26_Times ==
    {Null, ExpectedVerificationTime, ExpectedVerificationTime - 20}

C26_IsOther(type) == type # "VERIFICATION_TIME_MISMATCH"

C26_Others(types) == SelectSeq(types, C26_IsOther)

C26_Advisory ==
    [][\A r \in AllReviewReqs :
         /\ (rv[r].pc = "dup" /\ rv'[r] # rv[r] /\ ~C22_Duplicate(r)) =>
              /\ \A v \in C26_Times :
                   LET twin == SecurityChecks(
                                 [rv[r].body EXCEPT !.verificationTime = v],
                                 rv[r].radius)
                   IN  /\ rv'[r].result = (IF twin.verdict = "ok" THEN "none"
                                           ELSE twin.verdict)
                       /\ C26_Others(Appended) = C26_Others(twin.events)
              /\ C13_Count("VERIFICATION_TIME_MISMATCH") <= 1
              /\ C13_Count("VERIFICATION_TIME_MISMATCH") = 1 =>
                    rv[r].body.verificationTime
                       \notin {Null, ExpectedVerificationTime}
         /\ (rv[r].pc = "create" /\ rv'[r] # rv[r]) =>
              /\ r \in DOMAIN reviews'
              /\ reviews'[r].security.verificationTime
                    = rv[r].body.verificationTime
              /\ \A v \in C26_Times :
                   [reviews'[r].security EXCEPT !.verificationTime = v]
                     = Snapshot([rv[r].body EXCEPT !.verificationTime = v],
                                rv[r].radius)
         /\ rv[r].pc \notin {"idle", "rate", "dup", "device", "create", "done"}
              => rv[r].body = NoBody]_vars

\* Witness of C26: a submission with verificationTime 10 was accepted: its
\* review stores the 10, the mismatch is in the log and the response is 201
\* with a coupon.
C26_MismatchAccepted ==
    /\ rv[1].pc = "done"
    /\ rv[1].result = "created"
    /\ 1 \in DOMAIN reviews
    /\ reviews[1].security.verificationTime = ExpectedVerificationTime - 20
    /\ reviews[1].coupon = RewardId(1)
    /\ \E k \in DOMAIN log :
          /\ log[k].eventType = "VERIFICATION_TIME_MISMATCH"
          /\ log[k].userId = reviews[1].user

\* C27: for every coupon, redeemedAt and redeemedBy are set if and only if
\* its status is redeemed.
C27_RedemptionFieldsMatchStatus ==
    \A c \in DOMAIN coupons :
       /\ (coupons[c].redeemedAt # Null) <=> (coupons[c].status = "redeemed")
       /\ (coupons[c].redeemedBy # "none") <=> (coupons[c].status = "redeemed")

\* createReview on one business while the admin changes business radii:
\* the bodies cover both sides of every hard check and of every radius the
\* admin can set.
SnapshotBodies ==
    {[CleanInput EXCEPT !.distance = x] :
       x \in {MinRadius + 1, DefaultRadius + 1}}
    \cup {[CleanInput EXCEPT !.locationAccuracy = a] :
             a \in {Null, MaxAccuracy, MaxAccuracy + 1}}
    \cup {[CleanInput EXCEPT !.isMockLocation = TRUE],
          [CleanInput EXCEPT !.deviceId = 1]}
    \cup {[CleanInput EXCEPT !.anomalies = n] :
             n \in {MaxAnomalies - 1, MaxAnomalies}}

InitSnapshot == InitStores(0, FALSE)

\* PUT /admin/businesses/:id/radius for business b.
UpdateRadiusOf(b) == UpdateBusinessRadius /\ fn'.business = b

NextSnapshot ==
    \/ FindBusinessFrom(1, SnapshotBodies)
    \/ AfterArrival(1)
    \/ UpdateRadiusOf(1)

SpecSnapshot == InitSnapshot /\ [][NextSnapshot]_vars

\* C29: every stored review carries a snapshot that passed every hard
\* check (verified, distance within the recorded radius, accuracy absent or
\* at most 50, no mock location, fewer than 3 anomalies), and a step that
\* changes a business radius leaves every stored review as it was.
C29_Passed(rev) ==
    /\ rev.verified
    /\ rev.security.actualDistance <= rev.security.businessRadius
    /\ \/ rev.security.locationAccuracy = Null
       \/ rev.security.locationAccuracy <= MaxAccuracy
    /\ ~rev.security.isMockLocation
    /\ rev.security.suspiciousActivitiesCount < MaxAnomalies

ReviewTargets == DOMAIN reviews \cup {MissingReview}

\* PUT /api/reviews/:id by user u with `stars` in the body (Undefined when
\* the body has no rating): Review.findById, the 404, the 403, then
\* review.save() of the changed rating.  Nothing else is written.
UpdateReview ==
    /\ \E id \in ReviewTargets, u \in Users, stars \in Ratings \cup {Undefined} :
         IF id \notin DOMAIN reviews
         THEN /\ reviews' = reviews
              /\ fn' = [op |-> "updateReview", review |-> id, status |-> 404]
         ELSE IF reviews[id].user # u
         THEN /\ reviews' = reviews
              /\ fn' = [op |-> "updateReview", review |-> id, status |-> 403]
         ELSE /\ reviews' = IF stars = Undefined THEN reviews
                            ELSE [reviews EXCEPT ![id].rating = stars]
              /\ fn' = [op |-> "updateReview", review |-> id, status |-> 200]
    /\ fn' # fn \/ reviews' # reviews
    /\ UNCHANGED <<now, rating, coupons, log, rv, rd, sw, mc, bizRadius>>

\* DELETE /api/reviews/:id by user u, who may be an admin: Review.findById,
\* the 404, the 403, then review.deleteOne().  Nothing else is written.
DeleteReview ==
    /\ \E id \in ReviewTargets, u \in Users, admin \in BOOLEAN :
         IF id \notin DOMAIN reviews
         THEN /\ reviews' = reviews
              /\ fn' = [op |-> "deleteReview", review |-> id, status |-> 404]
         ELSE IF reviews[id].user # u /\ ~admin
         THEN /\ reviews' = reviews
              /\ fn' = [op |-> "deleteReview", review |-> id, status |-> 403]
         ELSE /\ reviews' = [k \in DOMAIN reviews \ {id} |-> reviews[k]]
              /\ fn' = [op |-> "deleteReview", review |-> id, status |-> 200]
    /\ fn' # fn \/ reviews' # reviews
    /\ UNCHANGED <<now, rating, coupons, log, rv, rd, sw, mc, bizRadius>>

\* The bodies of the createReview requests that run beside them.
RatingBodies == {CleanInput, [CleanInput EXCEPT !.deviceId = 1]}

InitRating == InitStores(0, TRUE)

\* A createReview request with updateReview and deleteReview calls at
\* every point of it.
NextRating ==
    \/ FindBusinessFrom(1, RatingBodies)
    \/ AfterArrival(1)
    \/ UpdateReview
    \/ DeleteReview

SpecRating == InitRating /\ [][NextRating]_vars

\* C30: whenever no createReview is in flight, every business's stored
\* rating count is the number of its stored reviews and its rating average
\* is their mean (kept as sum and count).
C30_InFlight == \E r \in AllReviewReqs : rv[r].pc \notin {"idle", "done"}

C30_RatingMatchesReviews ==
    ~C30_InFlight =>
       \A b \in Businesses :
          /\ rating[b].count = Cardinality(BusinessReviews(b))
          /\ rating[b].sum = C16_Total(BusinessReviews(b))

\* C28: the two redemption operations are equivalent.  What a successful
\* scan-redeem of coupon c at time t leaves in the coupon collection: the
\* coupon redeemed and, for a review_reward coupon, the redemptionCount of
\* the active template of its business one higher.
C28_ScanResult(c, t) ==
    [k \in DOMAIN coupons |->
       IF k = c THEN Redeemed(coupons[c], t)
       ELSE IF /\ coupons[c].type = "review_reward"
               /\ k \in TemplateIds(coupons[c].business)
       THEN [coupons[k] EXCEPT !.redemptionCount = @ + 1]
       ELSE coupons[k]]

\* A successful POST /coupons/:id/redeem leaves the coupon and the template
\* as a successful scan-redeem of the same coupon at the same time does.
C28_RedeemLikeScan ==
    [][\A d \in AllRedeemReqs :
         (/\ rd[d].op = "redeem"
          /\ rd[d].pc = "save"
          /\ rd'[d].pc = "done"
          /\ rd'[d].result = "redeemed")
         => coupons' = C28_ScanResult(rd[d].coupon, rd[d].at)]_vars

====
